---- MODULE Spec2Model ----
(***************************************************************************)
(* Model of the monobase API build script (build constants, define args,   *)
(* bundler subprocess, exit code) and of the email template registrar      *)
(* (registerTemplates over the EmailTemplateRepository).                   *)
(***************************************************************************)
EXTENDS Integers, Sequences, FiniteSets, TLC

\* ------------------------------------------------------------------------
\* Bounds
\* ------------------------------------------------------------------------
\* longest batch of template definitions handed to registerTemplates
MaxBatch == 2
\* number of registerTemplates invocations over the life of the store
MaxRuns == 2
\* longest string value of a BuildConstants field given to constantsToDefineArgs
MaxStrLen == 2

\* ------------------------------------------------------------------------
\* Template registrar: data
\* ------------------------------------------------------------------------
\* the two callers that may invoke registerTemplates over the same store
Runs == {1, 2}

TagVerify == "AUTH_EMAIL_VERIFY"
TagReset == "AUTH_PASSWORD_RESET"

\* TemplateDefinition values: two definitions sharing one tag array with
\* different content, and one with another tag array
DefVerify ==
  [metadata |-> [name |-> "Email Verification", description |-> "d-verify",
                 subject |-> "Verify your email address",
                 tags |-> <<TagVerify>>, variables |-> <<"name", "email", "verificationLink">>,
                 fromName |-> "undefined", fromEmail |-> "undefined",
                 replyToEmail |-> "undefined", replyToName |-> "undefined"],
   content |-> [html |-> "verify.html", text |-> "verify.text"]]

DefVerifyAlt ==
  [metadata |-> [name |-> "Email Verification v2", description |-> "d-verify2",
                 subject |-> "Please verify",
                 tags |-> <<TagVerify>>, variables |-> <<"name">>,
                 fromName |-> "Monobase", fromEmail |-> "no-reply@monobase",
                 replyToEmail |-> "undefined", replyToName |-> "undefined"],
   content |-> [html |-> "verify2.html", text |-> "verify2.text"]]

DefReset ==
  [metadata |-> [name |-> "Password Reset", description |-> "d-reset",
                 subject |-> "Reset your password",
                 tags |-> <<TagReset>>, variables |-> <<"name", "email", "resetLink", "expirationTime">>,
                 fromName |-> "undefined", fromEmail |-> "undefined",
                 replyToEmail |-> "Support", replyToName |-> "support@monobase"],
   content |-> [html |-> "reset.html", text |-> "reset.text"]]

DefPool == {DefVerify, DefVerifyAlt, DefReset}

RECURSIVE SeqsUpTo(_, _)
SeqsUpTo(S, n) ==
  IF n = 0 THEN {<<>>}
  ELSE LET shorter == SeqsUpTo(S, n - 1)
       IN shorter \cup {Append(s, x) : s \in {t \in shorter : Len(t) = n - 1}, x \in S}

Batches == SeqsUpTo(DefPool, MaxBatch)

Range(s) == {s[k] : k \in DOMAIN s}

NewEmailTemplateSwappedBody(def) ==
  [name |-> def.metadata.name,
   description |-> def.metadata.description,
   subject |-> def.metadata.subject,
   bodyHtml |-> def.content.text,
   bodyText |-> def.content.html,
   tags |-> def.metadata.tags,
   variables |-> def.metadata.variables,
   fromName |-> def.metadata.fromName,
   fromEmail |-> def.metadata.fromEmail,
   replyToEmail |-> def.metadata.replyToEmail,
   replyToName |-> def.metadata.replyToName,
   status |-> "active"]

NewEmailTemplateNoTags(def) ==
  [name |-> def.metadata.name,
   description |-> def.metadata.description,
   subject |-> def.metadata.subject,
   bodyHtml |-> def.content.html,
   bodyText |-> def.content.text,
   tags |-> <<>>,
   variables |-> def.metadata.variables,
   fromName |-> def.metadata.fromName,
   fromEmail |-> def.metadata.fromEmail,
   replyToEmail |-> def.metadata.replyToEmail,
   replyToName |-> def.metadata.replyToName,
   status |-> "active"]

\* NewEmailTemplate built from a definition
NewEmailTemplate(def) ==
  [name |-> def.metadata.name,
   description |-> def.metadata.description,
   subject |-> def.metadata.subject,
   bodyHtml |-> def.content.html,
   bodyText |-> def.content.text,
   tags |-> def.metadata.tags,
   variables |-> def.metadata.variables,
   fromName |-> def.metadata.fromName,
   fromEmail |-> def.metadata.fromEmail,
   replyToEmail |-> def.metadata.replyToEmail,
   replyToName |-> def.metadata.replyToName,
   status |-> "active"]

\* a stored record: the inserted fields plus the generated identifier
Stored(rec, id) ==
  [f \in DOMAIN rec \cup {"id"} |-> IF f = "id" THEN id ELSE rec[f]]

\* the repository's tag filter: a record matches when its tag set is the filter's
TagsMatch(stored, tags) == Range(stored.tags) = Range(tags)

RECURSIVE SelectMatching(_, _)
SelectMatching(recs, tags) ==
  IF recs = <<>> THEN <<>>
  ELSE IF TagsMatch(Head(recs), tags)
       THEN <<Head(recs)>> \o SelectMatching(Tail(recs), tags)
       ELSE SelectMatching(Tail(recs), tags)

Min(a, b) == IF a < b THEN a ELSE b

\* EmailTemplateRepository.findMany(filter, {pagination: {limit, offset}})
FindMany(recs, tags, limit, offset) ==
  LET m == SelectMatching(recs, tags)
  IN SubSeq(m, offset + 1, Min(Len(m), offset + limit))

\* EmailTemplateRepository.createTemplate(record)
CreateTemplate(recs, rec) == Append(recs, Stored(rec, Len(recs) + 1))

\* stores the registrar may be started on: empty, or holding one record that
\* was registered earlier for the verify tag
InitialStores == {<<>>, <<Stored(NewEmailTemplate(DefVerify), 1)>>}

VARIABLES
  store,      \* the persisted email templates, in insertion order
  templates,  \* the batch of definitions passed to registerTemplates
  pc,         \* per run: "idle", "findMany", "createTemplate", "done"
  idx,        \* per run: position of the loop in the batch
  calls,      \* per run: the store calls of the current invocation
  log,        \* per run: the logger entries of the current invocation
  started,    \* number of invocations started so far
  overlap,    \* some invocation started while another was in flight
  cleanDone,  \* some invocation has finished without a failed store call
  prior,      \* per run: cleanDone as it was when the invocation started
  snap        \* per run: the store as it was when the invocation started

regVars ==
  <<store, templates, pc, idx, calls, log, started, overlap, cleanDone, prior,
    snap>>

VARIABLES
  gitDir,          \* existsSync('.git')
  manifest,        \* package.json in the working directory
  bpc,             \* main: "start", "git", "build", "await", "exited"
  commit,          \* the getGitCommit() promise
  branch,          \* the getGitBranch() promise
  buildConstants,  \* the record generateBuildConstants returned
  spawnArgs,       \* the command line handed to Bun.spawn
  bundler,         \* the bundler subprocess
  thrown,          \* where an exception was thrown, "none" if nowhere
  console,         \* the status lines printed so far
  exited,          \* the build script's process has ended
  exitCode         \* its exit code

buildVars ==
  <<gitDir, manifest, bpc, commit, branch, buildConstants, spawnArgs, bundler,
    thrown, console, exited, exitCode>>

VARIABLES
  input,       \* the BuildConstants record passed to constantsToDefineArgs
  defineArgs,  \* the string[] it returned
  dpc          \* "input" before the call, "serialized" after

defVars == <<input, defineArgs, dpc>>

vars == <<regVars, buildVars, defVars>>

\* ------------------------------------------------------------------------
\* Template registrar: registerTemplates
\* ------------------------------------------------------------------------
Threw == -1

InFlight(r) == pc[r] \in {"findMany", "createTemplate"}

NoFailure(cs) == \A k \in DOMAIN cs : cs[k].ret # Threw

\* the for-of loop: the next definition, or the end of the batch
LoopNext(i) == IF i > Len(templates) THEN "done" ELSE "findMany"

ExistenceQuerySecondPage(recs, metadata) == FindMany(recs, metadata.tags, 1, 1)

\* the existence query of one definition
ExistenceQuery(recs, metadata) == FindMany(recs, metadata.tags, 1, 0)

ShouldSkipOffByOne(existing) == Len(existing) > 1

ShouldSkipNever(existing) == FALSE

\* if (existing.length > 0) ... continue
ShouldSkip(existing) == Len(existing) > 0

AfterCatchAbort(i) == "done"

\* the catch block: log and fall through to the next iteration
AfterCatch(i) == LoopNext(i + 1)

FindManyCall(i, metadata, ret) ==
  [op |-> "findMany", idx |-> i,
   arg |-> [tags |-> metadata.tags, limit |-> 1, offset |-> 0], ret |-> ret]

CreateTemplateCall(i, rec, ret) ==
  [op |-> "createTemplate", idx |-> i, arg |-> rec, ret |-> ret]

LogEntry(level, msg, metadata) ==
  [level |-> level, msg |-> msg, name |-> metadata.name, tags |-> metadata.tags]

RegInit ==
  /\ store \in InitialStores
  /\ templates \in Batches
  /\ pc = [r \in Runs |-> "idle"]
  /\ idx = [r \in Runs |-> 1]
  /\ calls = [r \in Runs |-> <<>>]
  /\ log = [r \in Runs |-> <<>>]
  /\ started = 0
  /\ overlap = FALSE
  /\ cleanDone = FALSE
  /\ prior = [r \in Runs |-> FALSE]
  /\ snap = [r \in Runs |-> store]

\* registerTemplates(db, templates, logger) is invoked
Start(r) ==
  /\ pc[r] \in {"idle", "done"}
  /\ started < MaxRuns
  /\ started' = started + 1
  /\ pc' = [pc EXCEPT ![r] = LoopNext(1)]
  /\ idx' = [idx EXCEPT ![r] = 1]
  /\ calls' = [calls EXCEPT ![r] = <<>>]
  /\ log' = [log EXCEPT ![r] = <<>>]
  /\ overlap' = (overlap \/ \E o \in Runs \ {r} : InFlight(o))
  /\ prior' = [prior EXCEPT ![r] = cleanDone]
  /\ snap' = [snap EXCEPT ![r] = store]
  /\ cleanDone' = (cleanDone \/ LoopNext(1) = "done")
  /\ UNCHANGED <<store, templates>>
  /\ UNCHANGED <<buildVars, defVars>>

\* one iteration ends and the loop moves on
Advance(r, next, cs) ==
  /\ pc' = [pc EXCEPT ![r] = next]
  /\ idx' = [idx EXCEPT ![r] = idx[r] + 1]
  /\ cleanDone' = (cleanDone \/ (next = "done" /\ NoFailure(cs)))

\* await templateRepo.findMany(...) resolves
FindManyReturns(r) ==
  /\ pc[r] = "findMany"
  /\ LET metadata == templates[idx[r]].metadata
         existing == ExistenceQuery(store, metadata)
         cs == Append(calls[r], FindManyCall(idx[r], metadata, Len(existing)))
     IN /\ calls' = [calls EXCEPT ![r] = cs]
        /\ IF ShouldSkip(existing)
           THEN /\ log' = [log EXCEPT ![r] = Append(@,
                     LogEntry("debug", "Template already exists, skipping", metadata))]
                /\ Advance(r, LoopNext(idx[r] + 1), cs)
           ELSE /\ pc' = [pc EXCEPT ![r] = "createTemplate"]
                /\ UNCHANGED <<idx, log, cleanDone>>
  /\ UNCHANGED <<store, templates, started, overlap, prior, snap>>
  /\ UNCHANGED <<buildVars, defVars>>

\* await templateRepo.findMany(...) rejects
FindManyThrows(r) ==
  /\ pc[r] = "findMany"
  /\ LET metadata == templates[idx[r]].metadata
         cs == Append(calls[r], FindManyCall(idx[r], metadata, Threw))
     IN /\ calls' = [calls EXCEPT ![r] = cs]
        /\ log' = [log EXCEPT ![r] = Append(@,
              LogEntry("error", "Failed to register email template", metadata))]
        /\ Advance(r, AfterCatch(idx[r]), cs)
  /\ UNCHANGED <<store, templates, started, overlap, prior, snap>>
  /\ UNCHANGED <<buildVars, defVars>>

\* await templateRepo.createTemplate(templateDef) resolves
CreateTemplateReturns(r) ==
  /\ pc[r] = "createTemplate"
  /\ LET def == templates[idx[r]]
         templateDef == NewEmailTemplate(def)
         after == CreateTemplate(store, templateDef)
         created == after[Len(after)]
         cs == Append(calls[r], CreateTemplateCall(idx[r], templateDef, created.id))
     IN /\ store' = after
        /\ calls' = [calls EXCEPT ![r] = cs]
        /\ log' = [log EXCEPT ![r] = Append(@,
              LogEntry("debug", "Email template registered", created))]
        /\ Advance(r, LoopNext(idx[r] + 1), cs)
  /\ UNCHANGED <<templates, started, overlap, prior, snap>>
  /\ UNCHANGED <<buildVars, defVars>>

\* await templateRepo.createTemplate(templateDef) rejects
CreateTemplateThrows(r) ==
  /\ pc[r] = "createTemplate"
  /\ LET def == templates[idx[r]]
         cs == Append(calls[r],
                 CreateTemplateCall(idx[r], NewEmailTemplate(def), Threw))
     IN /\ calls' = [calls EXCEPT ![r] = cs]
        /\ log' = [log EXCEPT ![r] = Append(@,
              LogEntry("error", "Failed to register email template", def.metadata))]
        /\ Advance(r, AfterCatch(idx[r]), cs)
  /\ UNCHANGED <<store, templates, started, overlap, prior, snap>>
  /\ UNCHANGED <<buildVars, defVars>>

RegNext ==
  \E r \in Runs :
    \/ Start(r)
    \/ FindManyReturns(r)
    \/ FindManyThrows(r)
    \/ CreateTemplateReturns(r)
    \/ CreateTemplateThrows(r)

\* ------------------------------------------------------------------------
\* Build script: values
\* ------------------------------------------------------------------------
\* JavaScript strings are sequences of one-character strings; JavaScript
\* values carry their type.
Str(cs) == [t |-> "str", s |-> cs]
Num(n) == [t |-> "num", n |-> n]
Bool(b) == [t |-> "bool", b |-> b]
Null == [t |-> "null"]

\* ToBoolean
Truthy(v) ==
  CASE v.t = "str" -> v.s # <<>>
    [] v.t = "num" -> v.n # 0
    [] v.t = "bool" -> v.b
    [] OTHER -> FALSE

Unknown == Str(<<"u", "n", "k", "n", "o", "w", "n">>)
DefaultVersion == Str(<<"0", ".", "0", ".", "0">>)

IsSpace(c) == c \in {" ", "\n", "\t"}

RECURSIVE TrimStart(_)
TrimStart(cs) ==
  IF cs # <<>> /\ IsSpace(Head(cs)) THEN TrimStart(Tail(cs)) ELSE cs

RECURSIVE TrimEnd(_)
TrimEnd(cs) ==
  IF cs # <<>> /\ IsSpace(cs[Len(cs)]) THEN TrimEnd(SubSeq(cs, 1, Len(cs) - 1)) ELSE cs

\* String.prototype.trim
Trim(cs) == TrimEnd(TrimStart(cs))

\* the fields of BuildConstants in declaration (and Object.entries) order
FieldOrder ==
  <<"BUILD_VERSION", "BUILD_TIME", "BUILD_TIMESTAMP", "GIT_COMMIT", "GIT_BRANCH",
    "COMPILER_VERSION">>

Fields == Range(FieldOrder)

KeyText ==
  [BUILD_VERSION |-> <<"B", "U", "I", "L", "D", "_", "V", "E", "R", "S", "I", "O", "N">>,
   BUILD_TIME |-> <<"B", "U", "I", "L", "D", "_", "T", "I", "M", "E">>,
   BUILD_TIMESTAMP |-> <<"B", "U", "I", "L", "D", "_", "T", "I", "M", "E", "S", "T", "A", "M", "P">>,
   GIT_COMMIT |-> <<"G", "I", "T", "_", "C", "O", "M", "M", "I", "T">>,
   GIT_BRANCH |-> <<"G", "I", "T", "_", "B", "R", "A", "N", "C", "H">>,
   COMPILER_VERSION |-> <<"C", "O", "M", "P", "I", "L", "E", "R", "_", "V", "E", "R", "S", "I", "O", "N">>]

\* what `git rev-parse HEAD` and `git rev-parse --abbrev-ref HEAD` print
CommitOutputs == {<<"9", "f", "c", "e", "b", "0", "2", "\n">>, <<"c", "0", "f", "f", "e", "e", "1", "\n">>}
BranchOutputs == {<<"m", "a", "i", "n", "\n">>, <<"H", "E", "A", "D", "\n">>}

\* package.json as getPackageVersion meets it: missing, not JSON, or a JSON
\* value (null, a non-object, an object without or with a version key)
VersionValues ==
  {Str(<<>>), Str(<<"1", ".", "2", ".", "3">>), Str(<<"a", "b", "c">>), Str(<<"1", ".", "2">>),
   Num(0), Num(7), Bool(FALSE), Bool(TRUE), Null}

Manifests ==
  {[k |-> "absent"], [k |-> "unparsable"], [k |-> "null"], [k |-> "scalar"],
   [k |-> "object", hasVersion |-> FALSE]}
  \cup {[k |-> "object", hasVersion |-> TRUE, version |-> v] : v \in VersionValues}

GetPackageVersionNullish(m) ==
  IF m.k \in {"absent", "unparsable", "null"} THEN DefaultVersion
  ELSE IF m.k = "scalar" \/ ~m.hasVersion THEN DefaultVersion
  ELSE IF m.version.t = "null" THEN DefaultVersion ELSE m.version

\* getPackageVersion: readFileSync or JSON.parse or the property read of
\* null throws into the catch; otherwise packageJson.version || '0.0.0'
GetPackageVersion(m) ==
  IF m.k \in {"absent", "unparsable", "null"} THEN DefaultVersion
  ELSE IF m.k = "scalar" \/ ~m.hasVersion THEN DefaultVersion
  ELSE IF Truthy(m.version) THEN m.version ELSE DefaultVersion

BuildTime == Str(<<"M", "a", "y", " ", "1", ",", " ", "2", "0", "2", "5">>)
BuildTimestamp == Str(<<"2", "0", "2", "5", "-", "0", "5", "-", "0", "1", "T">>)
CompilerVersion == Str(<<"1", ".", "2", ".", "0">>)

\* ------------------------------------------------------------------------
\* Build script: JSON.stringify and the define arguments
\* ------------------------------------------------------------------------
Digit(d) == <<"0", "1", "2", "3", "4", "5", "6", "7", "8", "9">>[d + 1]

RECURSIVE Digits(_)
Digits(n) == IF n < 10 THEN <<Digit(n)>> ELSE Append(Digits(n \div 10), Digit(n % 10))

QuoteRaw(c) == <<c>>

\* JSON.stringify's QuoteJSONString, one code unit
Quote(c) ==
  CASE c = "\"" -> <<"\\", "\"">>
    [] c = "\\" -> <<"\\", "\\">>
    [] c = "\n" -> <<"\\", "n">>
    [] c = "\t" -> <<"\\", "t">>
    [] OTHER -> <<c>>

RECURSIVE QuoteAll(_)
QuoteAll(cs) == IF cs = <<>> THEN <<>> ELSE Quote(Head(cs)) \o QuoteAll(Tail(cs))

\* JSON.stringify(value) of a scalar
JSONStringify(v) ==
  CASE v.t = "str" -> <<"\"">> \o QuoteAll(v.s) \o <<"\"">>
    [] v.t = "num" -> Digits(v.n)
    [] v.t = "bool" -> IF v.b THEN <<"t", "r", "u", "e">> ELSE <<"f", "a", "l", "s", "e">>
    [] OTHER -> <<"n", "u", "l", "l">>

DefineFlag == <<"-", "-", "d", "e", "f", "i", "n", "e">>

RECURSIVE DefineArgsFrom(_, _)
DefineArgsFrom(constants, keys) ==
  IF keys = <<>> THEN <<>>
  ELSE <<DefineFlag, KeyText[Head(keys)] \o <<"=">> \o JSONStringify(constants[Head(keys)])>>
       \o DefineArgsFrom(constants, Tail(keys))

\* constantsToDefineArgs
ConstantsToDefineArgs(constants) == DefineArgsFrom(constants, FieldOrder)

\* the bundler command line before the constants' defines
FixedArgs ==
  <<<<"b", "u", "n">>,
    <<"b", "u", "i", "l", "d">>,
    <<"-", "-", "c", "o", "m", "p", "i", "l", "e">>,
    <<"-", "-", "m", "i", "n", "i", "f", "y">>,
    <<"-", "-", "s", "o", "u", "r", "c", "e", "m", "a", "p">>,
    <<"-", "-", "d", "e", "f", "i", "n", "e">>,
    <<"p", "r", "o", "c", "e", "s", "s", ".", "e", "n", "v", ".", "N", "O", "D", "E", "_", "E", "N", "V", "=", "\"", "p", "r", "o", "d", "u", "c", "t", "i", "o", "n", "\"">>,
    <<"-", "-", "e", "x", "t", "e", "r", "n", "a", "l">>,
    <<"a", "j", "v">>,
    <<"-", "-", "e", "x", "t", "e", "r", "n", "a", "l">>,
    <<"a", "j", "v", "-", "d", "r", "a", "f", "t", "-", "0", "4">>,
    <<"s", "r", "c", "/", "i", "n", "d", "e", "x", ".", "t", "s">>,
    <<"-", "-", "o", "u", "t", "f", "i", "l", "e">>,
    <<"d", "i", "s", "t", "/", "s", "e", "r", "v", "e", "r">>>>

\* buildBinary: ['bun', ...buildArgs] with the defines pushed at the end
SpawnArgs(constants) == FixedArgs \o ConstantsToDefineArgs(constants)

\* ------------------------------------------------------------------------
\* Build script: main, generateBuildConstants, buildBinary
\* ------------------------------------------------------------------------
NoConstants == [f \in Fields |-> Null]

Lookup(st, how, raw, v) == [st |-> st, how |-> how, raw |-> raw, v |-> v]

\* the synchronous head of getGitCommit / getGitBranch
GitLookupStart(hasGit) ==
  IF ~hasGit THEN Lookup("resolved", "nogit", <<>>, Unknown)
  ELSE Lookup("running", "none", <<>>, Null)

\* return result.trim()
GitLookupOk(raw) == Lookup("resolved", "ok", raw, Str(Trim(raw)))

GitLookupRejects == Lookup("rejected", "failed", <<>>, Null)

\* catch (error) { console.warn(...); return 'unknown' }
GitLookupFailed == Lookup("resolved", "failed", <<>>, Unknown)

Settled(l) == l.st \in {"resolved", "rejected"}

\* the object literal of generateBuildConstants
ConstantsRecord(m, gitCommit, gitBranch) ==
  [f \in Fields |->
     CASE f = "BUILD_VERSION" -> GetPackageVersion(m)
       [] f = "BUILD_TIME" -> BuildTime
       [] f = "BUILD_TIMESTAMP" -> BuildTimestamp
       [] f = "GIT_COMMIT" -> gitCommit
       [] f = "GIT_BRANCH" -> gitBranch
       [] OTHER -> CompilerVersion]

ExitOkNotOne(code) == code # 1

\* if (exitCode === 0)
ExitOk(code) == code = 0

\* exit codes of the bundler subprocess
BundlerExitCodes == {0, 1, 2}

NoBundler == [st |-> "none", code |-> 0]

BuildInit ==
  /\ gitDir \in BOOLEAN
  /\ manifest \in Manifests
  /\ bpc = "start"
  /\ commit = Lookup("init", "none", <<>>, Null)
  /\ branch = Lookup("init", "none", <<>>, Null)
  /\ buildConstants = NoConstants
  /\ spawnArgs = <<>>
  /\ bundler = NoBundler
  /\ thrown = "none"
  /\ console = <<>>
  /\ exited = FALSE
  /\ exitCode = 0

\* the catch around main(): console.error, process.exit(1)
Fatal(where) ==
  /\ thrown' = where
  /\ console' = Append(console, "Fatal error")
  /\ bpc' = "exited"
  /\ exited' = TRUE
  /\ exitCode' = 1

\* the tail of main() once buildBinary returned `success`
MainEnds(success, lines) ==
  /\ bpc' = "exited"
  /\ exited' = TRUE
  /\ IF ~success
     THEN /\ exitCode' = 1
          /\ console' = console \o lines
     ELSE /\ exitCode' = 0
          /\ console' = (console \o lines) \o <<"Build complete!">>

\* main() calls generateBuildConstants(): both lookups are started before
\* the first await
MainStart ==
  /\ bpc = "start"
  /\ bpc' = "git"
  /\ commit' = GitLookupStart(gitDir)
  /\ branch' = GitLookupStart(gitDir)
  /\ UNCHANGED <<gitDir, manifest, buildConstants, spawnArgs, bundler, thrown,
                 console, exited, exitCode>>
  /\ UNCHANGED <<regVars, defVars>>

GitCommitResolves ==
  /\ bpc = "git" /\ commit.st = "running"
  /\ \E raw \in CommitOutputs : commit' = GitLookupOk(raw)
  /\ UNCHANGED <<gitDir, manifest, bpc, branch, buildConstants, spawnArgs,
                 bundler, thrown, console, exited, exitCode>>
  /\ UNCHANGED <<regVars, defVars>>

GitCommitFails ==
  /\ bpc = "git" /\ commit.st = "running"
  /\ commit' = GitLookupFailed
  /\ UNCHANGED <<gitDir, manifest, bpc, branch, buildConstants, spawnArgs,
                 bundler, thrown, console, exited, exitCode>>
  /\ UNCHANGED <<regVars, defVars>>

GitBranchResolves ==
  /\ bpc = "git" /\ branch.st = "running"
  /\ \E raw \in BranchOutputs : branch' = GitLookupOk(raw)
  /\ UNCHANGED <<gitDir, manifest, bpc, commit, buildConstants, spawnArgs,
                 bundler, thrown, console, exited, exitCode>>
  /\ UNCHANGED <<regVars, defVars>>

GitBranchFails ==
  /\ bpc = "git" /\ branch.st = "running"
  /\ branch' = GitLookupFailed
  /\ UNCHANGED <<gitDir, manifest, bpc, commit, buildConstants, spawnArgs,
                 bundler, thrown, console, exited, exitCode>>
  /\ UNCHANGED <<regVars, defVars>>

\* Promise.all settles: the record is built and returned to main, or the
\* rejection of a lookup reaches the catch around main()
GenerateConstants ==
  /\ bpc = "git" /\ Settled(commit) /\ Settled(branch)
  /\ IF commit.st = "rejected" \/ branch.st = "rejected"
     THEN /\ Fatal("git")
          /\ UNCHANGED buildConstants
     ELSE /\ buildConstants' = ConstantsRecord(manifest, commit.v, branch.v)
          /\ bpc' = "build"
          /\ UNCHANGED <<thrown, console, exited, exitCode>>
  /\ UNCHANGED <<gitDir, manifest, commit, branch, spawnArgs, bundler>>
  /\ UNCHANGED <<regVars, defVars>>

\* an exception raised in generateBuildConstants outside its helpers' try
\* blocks propagates out of main()
DerivationThrows ==
  /\ bpc = "git" /\ Settled(commit) /\ Settled(branch)
  /\ Fatal("derivation")
  /\ UNCHANGED <<gitDir, manifest, commit, branch, buildConstants, spawnArgs,
                 bundler>>
  /\ UNCHANGED <<regVars, defVars>>

\* buildBinary: Bun.spawn(['bun', ...buildArgs]) starts the bundler
SpawnBundler ==
  /\ bpc = "build"
  /\ spawnArgs' = SpawnArgs(buildConstants)
  /\ bundler' = [st |-> "running", code |-> 0]
  /\ bpc' = "await"
  /\ UNCHANGED <<gitDir, manifest, commit, branch, buildConstants, thrown,
                 console, exited, exitCode>>
  /\ UNCHANGED <<regVars, defVars>>

\* buildBinary: Bun.spawn throws into the catch, which returns false
SpawnThrows ==
  /\ bpc = "build"
  /\ spawnArgs' = SpawnArgs(buildConstants)
  /\ thrown' = "spawn"
  /\ MainEnds(FALSE, <<"Build failed">>)
  /\ UNCHANGED <<gitDir, manifest, commit, branch, buildConstants, bundler>>
  /\ UNCHANGED <<regVars, defVars>>

\* buildBinary: the subprocess exits and its exit code decides
BundlerExits ==
  /\ bpc = "await"
  /\ \E code \in BundlerExitCodes :
       /\ bundler' = [st |-> "exited", code |-> code]
       /\ IF ExitOk(code)
          THEN MainEnds(TRUE, <<"Build successful!">>)
          ELSE MainEnds(FALSE, <<"Build failed">>)
  /\ UNCHANGED <<gitDir, manifest, commit, branch, buildConstants, spawnArgs,
                 thrown>>
  /\ UNCHANGED <<regVars, defVars>>

\* buildBinary: reading the pipes or awaiting `exited` throws into the catch
AwaitThrows ==
  /\ bpc = "await"
  /\ bundler' = [st |-> "lost", code |-> 0]
  /\ thrown' = "await"
  /\ MainEnds(FALSE, <<"Build failed">>)
  /\ UNCHANGED <<gitDir, manifest, commit, branch, buildConstants, spawnArgs>>
  /\ UNCHANGED <<regVars, defVars>>

BuildNext ==
  \/ MainStart
  \/ GitCommitResolves
  \/ GitCommitFails
  \/ GitBranchResolves
  \/ GitBranchFails
  \/ GenerateConstants
  \/ DerivationThrows
  \/ SpawnBundler
  \/ SpawnThrows
  \/ BundlerExits
  \/ AwaitThrows

\* ------------------------------------------------------------------------
\* constantsToDefineArgs on arbitrary records
\* ------------------------------------------------------------------------
\* code units that JSON must escape, the separator of a define, and a plain one
Chars == {"a", "=", "\"", "\\", "\n"}

ScalarValues ==
  {Str(cs) : cs \in SeqsUpTo(Chars, MaxStrLen)}
  \cup {Num(0), Num(7), Num(42), Bool(TRUE), Bool(FALSE), Null}

SampleValues == {Str(<<"\"", "=">>), Str(<<"\\">>), Num(42)}

SampleRecord ==
  ConstantsRecord([k |-> "absent"], Str(Trim(CHOOSE raw \in CommitOutputs : TRUE)),
                  Str(Trim(CHOOSE raw \in BranchOutputs : TRUE)))

\* BuildConstants records: a well-formed one with any two fields replaced
Records ==
  {[f \in Fields |-> IF f = k1 THEN v1 ELSE IF f = k2 THEN v2 ELSE SampleRecord[f]] :
     k1 \in Fields, v1 \in ScalarValues, k2 \in Fields, v2 \in SampleValues}

DefInit ==
  /\ input \in Records
  /\ defineArgs = <<>>
  /\ dpc = "input"

Serialize ==
  /\ dpc = "input"
  /\ defineArgs' = ConstantsToDefineArgs(input)
  /\ dpc' = "serialized"
  /\ UNCHANGED input
  /\ UNCHANGED <<regVars, buildVars>>

DefNext == Serialize

\* ------------------------------------------------------------------------
\* Specifications: each component runs on its own
\* ------------------------------------------------------------------------
RegIdle ==
  /\ store = <<>> /\ templates = <<>>
  /\ pc = [r \in Runs |-> "idle"] /\ idx = [r \in Runs |-> 1]
  /\ calls = [r \in Runs |-> <<>>] /\ log = [r \in Runs |-> <<>>]
  /\ started = 0 /\ overlap = FALSE /\ cleanDone = FALSE
  /\ prior = [r \in Runs |-> FALSE] /\ snap = [r \in Runs |-> <<>>]

BuildIdle ==
  /\ gitDir = FALSE /\ manifest = [k |-> "absent"] /\ bpc = "start"
  /\ commit = Lookup("init", "none", <<>>, Null)
  /\ branch = Lookup("init", "none", <<>>, Null)
  /\ buildConstants = NoConstants /\ spawnArgs = <<>> /\ bundler = NoBundler
  /\ thrown = "none" /\ console = <<>> /\ exited = FALSE /\ exitCode = 0

DefIdle == input = SampleRecord /\ defineArgs = <<>> /\ dpc = "input"

RegSpecInit == RegInit /\ BuildIdle /\ DefIdle

RegSpec == RegSpecInit /\ [][RegNext]_vars

BuildSpecInit == BuildInit /\ RegIdle /\ DefIdle

BuildSpec == BuildSpecInit /\ [][BuildNext]_vars

DefineSpecInit == DefInit /\ RegIdle /\ BuildIdle

DefineSpec == DefineSpecInit /\ [][DefNext]_vars

\* ------------------------------------------------------------------------
\* Template registrar: properties
\* ------------------------------------------------------------------------
Queries(r, i) ==
  {k \in DOMAIN calls[r] : calls[r][k].op = "findMany" /\ calls[r][k].idx = i}

Inserts(r, i) ==
  {k \in DOMAIN calls[r] : calls[r][k].op = "createTemplate" /\ calls[r][k].idx = i}

Inserted(r, i) == {k \in Inserts(r, i) : calls[r][k].ret # Threw}

SameTagSet(a, b) == Range(a) = Range(b)

\* C1: a definition whose existence query (its tags, limit 1, offset 0)
\* returned at least one record causes no createTemplate call.
NoInsertWhenFound ==
  \A r \in Runs : \A k \in DOMAIN calls[r] :
    (calls[r][k].op = "findMany" /\ calls[r][k].ret > 0) =>
      /\ calls[r][k].arg = [tags |-> templates[calls[r][k].idx].metadata.tags,
                            limit |-> 1, offset |-> 0]
      /\ Inserts(r, calls[r][k].idx) = {}

\* a finished run that found a stored record for one of its definitions
FoundAndSkipped ==
  \E r \in Runs :
    /\ pc[r] = "done"
    /\ \E k \in DOMAIN calls[r] : calls[r][k].op = "findMany" /\ calls[r][k].ret > 0

\* C2: a definition whose existence query returned no record gets exactly
\* one createTemplate call, with a record that mirrors the definition's
\* metadata and content and has status 'active'.
InsertOnceWhenAbsent ==
  \A r \in Runs : \A k \in DOMAIN calls[r] :
    (calls[r][k].op = "findMany" /\ calls[r][k].ret = 0) =>
      LET i == calls[r][k].idx
          def == templates[i]
      IN /\ Cardinality(Inserts(r, i)) <= 1
         /\ (idx[r] > i) => Cardinality(Inserts(r, i)) = 1
         /\ \A j \in Inserts(r, i) :
              LET rec == calls[r][j].arg
              IN /\ rec.name = def.metadata.name
                 /\ rec.description = def.metadata.description
                 /\ rec.subject = def.metadata.subject
                 /\ rec.tags = def.metadata.tags
                 /\ rec.variables = def.metadata.variables
                 /\ rec.bodyHtml = def.content.html
                 /\ rec.bodyText = def.content.text
                 /\ rec.status = "active"

\* a finished run that inserted a definition it did not find
AbsentAndInserted ==
  \E r \in Runs :
    /\ pc[r] = "done"
    /\ \E i \in DOMAIN templates :
         /\ \E k \in Queries(r, i) : calls[r][k].ret = 0
         /\ Inserted(r, i) # {}
         /\ store[calls[r][CHOOSE k \in Inserted(r, i) : TRUE].ret].name
              = templates[i].metadata.name

\* C3: when a run has finished, every definition of the batch was queried,
\* and every definition found absent had its insert attempted, whatever
\* store calls threw on the way.
FailureDoesNotAbort ==
  \A r \in Runs :
    pc[r] = "done" =>
      \A i \in DOMAIN templates :
        /\ Cardinality(Queries(r, i)) = 1
        /\ (\E k \in Queries(r, i) : calls[r][k].ret = 0) => Inserts(r, i) # {}

\* a finished run whose first definition failed and whose second was processed
LaterProcessedAfterFailure ==
  \E r \in Runs :
    /\ pc[r] = "done"
    /\ Len(templates) >= 2
    /\ \E k \in DOMAIN calls[r] : calls[r][k].idx = 1 /\ calls[r][k].ret = Threw
    /\ Inserted(r, 2) # {}

\* C4: a run started after a failure-free run has finished, with no run
\* overlapping another and no failed store call of its own, makes no insert
\* and leaves the store as it found it.
SecondRunIdempotent ==
  \A r \in Runs :
    (pc[r] = "done" /\ prior[r] /\ ~overlap /\ NoFailure(calls[r])) =>
      /\ \A i \in DOMAIN templates : Inserts(r, i) = {}
      /\ store = snap[r]

\* a second, failure-free run over a store the first run inserted into
SecondRunDone ==
  \E r \in Runs :
    /\ pc[r] = "done" /\ prior[r] /\ ~overlap /\ NoFailure(calls[r])
    /\ Len(calls[r]) = 2
    /\ Len(store) > 1

InsertedTagsOnce(r) ==
  \A i, j \in DOMAIN templates :
    (Inserted(r, i) # {} /\ Inserted(r, j) # {}
       /\ SameTagSet(templates[i].metadata.tags, templates[j].metadata.tags))
      => i = j

Duplicates ==
  \E a, b \in DOMAIN store :
    /\ a # b
    /\ SameTagSet(store[a].tags, store[b].tags)
    /\ store[a].status = "active" /\ store[b].status = "active"

\* C6: two active records for one tag set are in the store only after two
\* registerTemplates runs overlapped; no single run and no sequence of runs
\* one after the other produces them.
DuplicatesOnlyByOverlap == Duplicates => overlap

\* two overlapping runs both found no record for a tag set and both inserted
DuplicatesByRace ==
  /\ Duplicates
  /\ started = 2
  /\ \A r \in Runs :
       /\ \E k \in Queries(r, 1) : calls[r][k].ret = 0
       /\ Inserted(r, 1) # {}

\* ------------------------------------------------------------------------
\* Build script: properties
\* ------------------------------------------------------------------------
Reported(line) == \E k \in DOMAIN console : console[k] = line

Built == bpc \in {"build", "await"} \/ (bpc = "exited" /\ thrown \notin {"git", "derivation"})

\* C7: the process exit code is 0 exactly when the bundler exited with code
\* 0 and nothing threw; a non-zero bundler exit or a throw while spawning,
\* awaiting or deriving the metadata ends in exit code 1, and 'Build
\* complete' is reported only on the way to exit code 0.
ExitCodeGatesOnBundler ==
  /\ exited =>
       /\ exitCode \in {0, 1}
       /\ (exitCode = 0) <=> (bundler.st = "exited" /\ bundler.code = 0 /\ thrown = "none")
       /\ (bundler.st = "exited" /\ bundler.code # 0) => exitCode = 1
       /\ thrown # "none" => exitCode = 1
       /\ exitCode = 1 => ~Reported("Build complete!")
       /\ exitCode = 0 => Reported("Build complete!")
  /\ Reported("Build complete!") => (exited /\ exitCode = 0)

\* the bundler exited with a non-zero code other than 1 and the script exited with 1
BundlerFailedExitOne ==
  /\ exited /\ bundler.st = "exited" /\ bundler.code = 2
  /\ exitCode = 1 /\ Reported("Build failed")

IsDigit(c) == c \in {"0", "1", "2", "3", "4", "5", "6", "7", "8", "9"}

RECURSIVE SplitDots(_)
SplitDots(cs) ==
  IF \A k \in DOMAIN cs : cs[k] # "."
  THEN <<cs>>
  ELSE LET d == CHOOSE k \in DOMAIN cs : cs[k] = "." /\ \A j \in 1..(k - 1) : cs[j] # "."
       IN <<SubSeq(cs, 1, d - 1)>> \o SplitDots(SubSeq(cs, d + 1, Len(cs)))

\* major.minor.patch, each a run of digits
WellFormedVersion(v) ==
  /\ v.t = "str"
  /\ LET parts == SplitDots(v.s)
     IN /\ Len(parts) = 3
        /\ \A k \in DOMAIN parts :
             parts[k] # <<>> /\ \A j \in DOMAIN parts[k] : IsDigit(parts[k][j])

NoVersionKey(m) == m.k \in {"absent", "unparsable", "null", "scalar"} \/ ~m.hasVersion

SameValue(a, b) ==
  /\ a.t = b.t
  /\ CASE a.t = "str" -> a.s = b.s
       [] a.t = "num" -> a.n = b.n
       [] a.t = "bool" -> a.b = b.b
       [] OTHER -> TRUE

\* C8 (as stated): a manifest that is absent or unparsable, has no version
\* key, or has a version that is empty or not a well-formed version string
\* yields BUILD_VERSION "0.0.0".
MalformedVersionYieldsDefault ==
  (Built /\ (NoVersionKey(manifest) \/ ~WellFormedVersion(manifest.version)))
    => SameValue(buildConstants["BUILD_VERSION"], DefaultVersion)

\* C8 (as amended): BUILD_VERSION is "0.0.0" when the manifest is absent or
\* unparsable, has no version key, or has a falsy version (empty string, 0,
\* false, null); any other version value is passed through unchanged.
UnreadableOrFalsyVersionYieldsDefault ==
  Built =>
    IF NoVersionKey(manifest) \/ ~Truthy(manifest.version)
    THEN SameValue(buildConstants["BUILD_VERSION"], DefaultVersion)
    ELSE SameValue(buildConstants["BUILD_VERSION"], manifest.version)

\* the record was built from a manifest whose version is the empty string
EmptyVersionDefaulted ==
  /\ Built
  /\ manifest.k = "object" /\ manifest.hasVersion
  /\ SameValue(manifest.version, Str(<<>>))
  /\ SameValue(buildConstants["BUILD_VERSION"], DefaultVersion)

FieldOfLookup(l, value) ==
  /\ l.st = "resolved"
  /\ l.how = "nogit" => SameValue(value, Unknown)
  /\ l.how = "failed" => SameValue(value, Unknown)
  /\ l.how = "ok" => SameValue(value, Str(Trim(l.raw)))

\* C9: both git lookups are started together and joined before the record
\* is built; without .git both fields are "unknown", a failed query makes
\* only its own field "unknown" while the other keeps its trimmed output,
\* no lookup rejects into main, and the record has all six fields populated.
GitLookupsJoinedAndDefaulted ==
  /\ (commit.st = "init") <=> (branch.st = "init")
  /\ commit.st # "rejected" /\ branch.st # "rejected" /\ thrown # "git"
  /\ Built =>
       /\ FieldOfLookup(commit, buildConstants["GIT_COMMIT"])
       /\ FieldOfLookup(branch, buildConstants["GIT_BRANCH"])
       /\ ~gitDir =>
            /\ SameValue(buildConstants["GIT_COMMIT"], Unknown)
            /\ SameValue(buildConstants["GIT_BRANCH"], Unknown)
       /\ DOMAIN buildConstants = Fields
       /\ \A f \in Fields : Truthy(buildConstants[f])

\* the commit query failed and the branch query succeeded: the record has
\* "unknown" for the commit and the branch's own name
OneLookupFailed ==
  /\ Built
  /\ commit.how = "failed" /\ branch.how = "ok"
  /\ SameValue(buildConstants["GIT_COMMIT"], Unknown)
  /\ ~SameValue(buildConstants["GIT_BRANCH"], Unknown)

\* ------------------------------------------------------------------------
\* constantsToDefineArgs: reading the defines back
\* ------------------------------------------------------------------------
Failed == [ok |-> FALSE, v |-> Null]

RECURSIVE ParseChars(_, _)
\* the body of a JSON string literal after its opening quote
ParseChars(cs, acc) ==
  IF cs = <<>> THEN Failed
  ELSE IF Head(cs) = "\"" THEN (IF Len(cs) = 1 THEN [ok |-> TRUE, v |-> Str(acc)] ELSE Failed)
  ELSE IF Head(cs) = "\\"
       THEN IF Len(cs) < 2 THEN Failed
            ELSE LET e == cs[2]
                     rest == SubSeq(cs, 3, Len(cs))
                 IN CASE e = "\"" -> ParseChars(rest, Append(acc, "\""))
                      [] e = "\\" -> ParseChars(rest, Append(acc, "\\"))
                      [] e = "/" -> ParseChars(rest, Append(acc, "/"))
                      [] e = "n" -> ParseChars(rest, Append(acc, "\n"))
                      [] e = "t" -> ParseChars(rest, Append(acc, "\t"))
                      [] OTHER -> Failed
  ELSE IF Head(cs) \in {"\n", "\t"} THEN Failed
  ELSE ParseChars(Tail(cs), Append(acc, Head(cs)))

DigitValue(c) == CHOOSE d \in 0..9 : Digit(d) = c

RECURSIVE NumberOf(_)
NumberOf(cs) ==
  IF Len(cs) = 1 THEN DigitValue(cs[1])
  ELSE 10 * NumberOf(SubSeq(cs, 1, Len(cs) - 1)) + DigitValue(cs[Len(cs)])

\* JSON.parse of a scalar
JSONParse(cs) ==
  IF cs = <<>> THEN Failed
  ELSE IF cs = <<"t", "r", "u", "e">> THEN [ok |-> TRUE, v |-> Bool(TRUE)]
  ELSE IF cs = <<"f", "a", "l", "s", "e">> THEN [ok |-> TRUE, v |-> Bool(FALSE)]
  ELSE IF cs = <<"n", "u", "l", "l">> THEN [ok |-> TRUE, v |-> Null]
  ELSE IF Head(cs) = "\"" THEN ParseChars(Tail(cs), <<>>)
  ELSE IF (\A k \in DOMAIN cs : IsDigit(cs[k])) /\ (Len(cs) = 1 \/ cs[1] # "0")
       THEN [ok |-> TRUE, v |-> Num(NumberOf(cs))]
  ELSE Failed

\* KEY=JSON split at the first '='
ParseDefine(arg) ==
  IF \A k \in DOMAIN arg : arg[k] # "="
  THEN [ok |-> FALSE, key |-> <<>>, v |-> Null]
  ELSE LET eq == CHOOSE k \in DOMAIN arg : arg[k] = "=" /\ \A j \in 1..(k - 1) : arg[j] # "="
           parsed == JSONParse(SubSeq(arg, eq + 1, Len(arg)))
       IN [ok |-> parsed.ok, key |-> SubSeq(arg, 1, eq - 1), v |-> parsed.v]

\* C10: constantsToDefineArgs returns six ('--define', 'KEY=JSON') pairs in
\* field order, and splitting each second element at its first '=' and
\* JSON-decoding the rest gives back the field's key and value.
DefineArgsRoundTrip ==
  dpc = "serialized" =>
    /\ Len(defineArgs) = 2 * Len(FieldOrder)
    /\ Len(FieldOrder) = 6
    /\ \A i \in DOMAIN FieldOrder :
         /\ defineArgs[2 * i - 1] = DefineFlag
         /\ LET p == ParseDefine(defineArgs[2 * i])
            IN /\ p.ok
               /\ p.key = KeyText[FieldOrder[i]]
               /\ SameValue(p.v, input[FieldOrder[i]])

\* a record whose commit holds a quote and an '=' and whose version holds a
\* backslash and a newline has been serialized
EscapedValuesSerialized ==
  /\ dpc = "serialized"
  /\ SameValue(input["GIT_COMMIT"], Str(<<"\"", "=">>))
  /\ SameValue(input["BUILD_VERSION"], Str(<<"\\", "\n">>))
  /\ ParseDefine(defineArgs[2]).ok

====
